---- MODULE Spec2Model ----
(***************************************************************************)
(* Model of xicam/plugins/operationplugin.py: the metadata annotators that *)
(* write attributes onto a callable, the factory operation() that merges   *)
(* them into a WrappedOperationPlugin class, OperationPlugin._validate,    *)
(* OperationPlugin.__init__, OperationPlugin.__reduce__ and                *)
(* OperationPlugin.as_parameter.                                           *)
(*                                                                         *)
(* Python objects that can be mutated in place (dicts and lists) live in   *)
(* `heap` and are named by their index, so that two attributes holding the *)
(* same object are the same index.  Immutable values (None, str, tuple)    *)
(* are tagged records.                                                     *)
(***************************************************************************)
EXTENDS Integers, Sequences, FiniteSets, TLC

VARIABLES
    func,     \* the callable: its signature's parameter names and its __name__
    fval,     \* attributes of the callable holding immutable values
    fref,     \* attributes of the callable holding dicts/lists (0: no attribute)
    heap,     \* the dicts and lists, by identity
    types,    \* the classes operation() has returned
    insts,    \* the instances constructed from those classes
    last,     \* the latest call of operation(): arguments, outcome, result
    nannot,   \* annotators applied so far
    nedit,    \* in-place edits made through instances so far
    shown     \* the latest call of as_parameter(): the instance and the list returned

vars == <<func, fval, fref, heap, types, insts, last, nannot, nedit, shown>>

(***************************************************************************)
(* Bounds of the exploration.                                              *)
(***************************************************************************)
MaxAnnot == 2
MaxBuild == 2
MaxInst == 2
MaxEdit == 1

(***************************************************************************)
(* Python values.                                                          *)
(***************************************************************************)
PyNone == [t |-> "None"]
NoAttr == [t |-> "NoAttr"]
PyStr(s) == [t |-> "str", s |-> s]
PyTuple(q) == [t |-> "tuple", q |-> q]
PyDict(d) == [t |-> "dict", d |-> d]
PyList(l) == [t |-> "list", l |-> l]

EmptyDict == [k \in {} |-> ""]

\* d[key] = value
SetItem(d, key, value) ==
    [k \in {x \in DOMAIN d : x # key} \cup {key} |-> IF k = key THEN value ELSE d[k]]

\* bool(v), as `or` evaluates it
Truthy(v) ==
    CASE v.t = "None" -> FALSE
      [] v.t = "NoAttr" -> FALSE
      [] v.t = "str" -> v.s # ""
      [] v.t = "tuple" -> v.q # <<>>
      [] v.t = "dict" -> DOMAIN v.d # {}
      [] v.t = "list" -> v.l # <<>>

\* a or b
Or(a, b) == IF Truthy(a) THEN a ELSE b

\* The pieces a short str can be cut into; enough for every str of the model.
Affixes == {"", "a", "d", "ad", "dd", "add"}

\* `k in s` for two strs: k is a substring of s
SubStr(k, s) == \E p \in Affixes, q \in Affixes : (p \o k) \o q = s

\* `k in names`, where names is a tuple of strs or a str
PyIn(k, names) ==
    CASE names.t = "tuple" -> \E i \in 1..Len(names.q) : names.q[i] = k
      [] names.t = "str" -> SubStr(k, names.s)

\* len(names)
PyLen(names) ==
    CASE names.t = "tuple" -> Len(names.q)
      [] names.t = "str" -> Len(names.s)

(***************************************************************************)
(* The attribute names.                                                    *)
(***************************************************************************)
DictAttrs == {"filled_values", "fixable", "fixed", "limits", "opts", "output_shape",
              "units", "visible", "input_descriptions", "output_descriptions"}
ListAttrs == {"categories", "hints"}
RefAttrs == DictAttrs \cup ListAttrs
ValAttrs == {"name", "input_names", "output_names"}

\* The class attributes of OperationPlugin: one shared {} (or []) each.
OperationPlugin ==
    [filled_values |-> 1, fixable |-> 2, fixed |-> 3, limits |-> 4, opts |-> 5,
     output_shape |-> 6, units |-> 7, visible |-> 8, input_descriptions |-> 9,
     output_descriptions |-> 10, hints |-> 11, categories |-> PyNone,
     input_names |-> PyNone, output_names |-> PyNone, name |-> PyNone]

\* The dict or list an annotator creates for func.<attr> the first time it is
\* needed: there is at most one per attribute, and it is named in advance.
FuncSlot ==
    [fixable |-> 12, fixed |-> 13, limits |-> 14, opts |-> 15, output_shape |-> 16,
     units |-> 17, visible |-> 18, input_descriptions |-> 19,
     output_descriptions |-> 20, categories |-> 21, hints |-> 22, filled_values |-> 23]

BaseHeap == [i \in 1..23 |-> EmptyDict]

(***************************************************************************)
(* The callables and the arguments the annotators are applied with.        *)
(***************************************************************************)
ParamLists == {<<"x">>, <<"x", "y">>}
ParamNames == {"x", "y"}

\* A parameter's annotation, by its __name__ ("_empty": not annotated), and its
\* default ("_empty": none).
Unannotated == [p \in ParamNames |-> "_empty"]
NoDefaults == [p \in ParamNames |-> "_empty"]
IntrinsicNames == {NoAttr, PyStr("add")}
InKeys == {"x", "z"}
OutKeys == {"o", "dd"}
DisplayNames == {"", "D"}
InputNameLists == {<<>>, <<"a">>, <<"a", "b">>}
OutputNameLists == {<<>>, <<"o">>}
CategoryLists == {<<"A">>, <<"A", "B">>}
OptionBags == {[step |-> "1"]}

\* func.<attr_name> exists
HasRef(fr, attr_name) == fr[attr_name] # 0

\* _quick_set(func, attr_name, key, value, init) on heap h and attributes fr
_quick_set(h, fr, attr_name, key, value) ==
    IF ~HasRef(fr, attr_name)
    THEN [heap |-> [h EXCEPT ![FuncSlot[attr_name]] = SetItem(EmptyDict, key, value)],
          fref |-> [fr EXCEPT ![attr_name] = FuncSlot[attr_name]]]
    ELSE [heap |-> [h EXCEPT ![fr[attr_name]] = SetItem(@, key, value)],
          fref |-> fr]

\* The frame of an annotator that goes through _quick_set.
Annotate(r) ==
    /\ nannot < MaxAnnot
    /\ heap' = r.heap
    /\ fref' = r.fref
    /\ nannot' = nannot + 1
    /\ UNCHANGED <<func, fval, types, insts, last, nedit, shown>>

units(arg_name, unit) == Annotate(_quick_set(heap, fref, "units", arg_name, unit))

fixed(arg_name, fix) == Annotate(_quick_set(heap, fref, "fixed", arg_name, fix))

limits(arg_name, limit) == Annotate(_quick_set(heap, fref, "limits", arg_name, limit))

output_shape(arg_name, shape) ==
    Annotate(_quick_set(heap, fref, "output_shape", arg_name, shape))

visible(arg_name, is_visible) ==
    Annotate(_quick_set(heap, fref, "visible", arg_name, is_visible))

\* old.update(new)
Updated(old, new) ==
    [k \in DOMAIN old \cup DOMAIN new |-> IF k \in DOMAIN new THEN new[k] ELSE old[k]]

\* func.opts[arg_name], {} when there is none
OptsEntry(h, fr, arg_name) ==
    IF HasRef(fr, "opts") /\ arg_name \in DOMAIN h[fr["opts"]]
    THEN h[h[fr["opts"]][arg_name]]
    ELSE EmptyDict

\* opts merging the options into the entry instead of setting the entry
optsMerging(arg_name, options) ==
    Annotate(_quick_set(Append(heap, Updated(OptsEntry(heap, fref, arg_name), options)),
                        fref, "opts", arg_name, Len(heap) + 1))

\* **options is a new dict on every call; the entry for arg_name is set to it
opts(arg_name, options) ==
    Annotate(_quick_set(Append(heap, options), fref, "opts", arg_name, Len(heap) + 1))

_describe_arg(arg_type, arg_name, description) ==
    Annotate(_quick_set(heap, fref, arg_type \o "_descriptions", arg_name, description))

describe_input(arg_name, description) == _describe_arg("input", arg_name, description)

describe_output(arg_name, description) == _describe_arg("output", arg_name, description)

\* The frame of an annotator that sets an immutable attribute.
SetVal(attr_name, v) ==
    /\ nannot < MaxAnnot
    /\ fval' = [fval EXCEPT ![attr_name] = v]
    /\ nannot' = nannot + 1
    /\ UNCHANGED <<func, fref, heap, types, insts, last, nedit, shown>>

display_name(name) == SetVal("name", PyStr(name))

input_names(names) == SetVal("input_names", PyTuple(names))

output_names(names) == SetVal("output_names", PyTuple(names))

\* append `item` to the list func.<attr_name>, creating it when missing
AppendTo(h, fr, attr_name, item) ==
    IF ~HasRef(fr, attr_name)
    THEN [heap |-> [h EXCEPT ![FuncSlot[attr_name]] = <<item>>],
          fref |-> [fr EXCEPT ![attr_name] = FuncSlot[attr_name]]]
    ELSE [heap |-> [h EXCEPT ![fr[attr_name]] = Append(@, item)],
          fref |-> fr]

\* func.categories.append(categories): the whole argument tuple is one item
categories(cats) == Annotate(AppendTo(heap, fref, "categories", cats))

plot_hint(hint) == Annotate(AppendTo(heap, fref, "hints", hint))

(***************************************************************************)
(* Reading attributes: of the callable, of a class, of an instance.        *)
(***************************************************************************)
\* The content of the dict or list `ref`; the option bags of opts are dicts too.
Deref(h, attr_name, ref) ==
    IF attr_name = "opts"
    THEN [k \in DOMAIN h[ref] |-> h[h[ref][k]]]
    ELSE h[ref]

\* What the annotators have attached to the callable, by value.
FuncMeta(h, fr, fv) ==
    [a \in RefAttrs \cup ValAttrs |->
        IF a \in ValAttrs THEN fv[a]
        ELSE IF HasRef(fr, a) THEN PyDict(Deref(h, a, fr[a])) ELSE NoAttr]

\* cls.<attr_name>: the class's own attribute, else the one OperationPlugin defines
TypeAttr(cls, attr_name) ==
    IF attr_name \in DOMAIN cls THEN cls[attr_name] ELSE OperationPlugin[attr_name]

\* The attributes of a class, by value.
ClassMeta(h, cls) ==
    [a \in RefAttrs \cup ValAttrs \cup {"input_description"} |->
        IF a \in ValAttrs THEN TypeAttr(cls, a) ELSE Deref(h, a, TypeAttr(cls, a))]

(***************************************************************************)
(* OperationPlugin._validate                                               *)
(***************************************************************************)
InputProperties == {"fixable", "fixed", "limits", "opts", "units", "visible"}
OutputProperties == {"output_shape"}

CountEntry(num_names, num_args) ==
    [kind |-> "count", arg |-> "", prop |-> "", given |-> num_names, expected |-> num_args]
InputEntry(arg, name) ==
    [kind |-> "input", arg |-> arg, prop |-> name, given |-> 0, expected |-> 0]
OutputEntry(arg, name) ==
    [kind |-> "output", arg |-> arg, prop |-> name, given |-> 0, expected |-> 0]

\* _validate without its check of the number of input names
InvalidMsgNoCount(h, cls, params) ==
    {InputEntry(arg, name) : <<name, arg>> \in
        {pa \in InputProperties \X (InKeys \cup OutKeys) :
            /\ pa[2] \in DOMAIN h[TypeAttr(cls, pa[1])]
            /\ ~PyIn(pa[2], TypeAttr(cls, "input_names"))}}
    \cup {OutputEntry(arg, name) : <<name, arg>> \in
        {pa \in OutputProperties \X (InKeys \cup OutKeys) :
            /\ pa[2] \in DOMAIN h[TypeAttr(cls, pa[1])]
            /\ ~PyIn(pa[2], TypeAttr(cls, "output_names"))}}

\* _validate stopping at the first kind of problem it meets
InvalidMsgFirstOnly(h, cls, params) ==
    LET num_names == PyLen(TypeAttr(cls, "input_names"))
        num_args == Len(params)
        inputs == {e \in InvalidMsgNoCount(h, cls, params) : e.kind = "input"}
    IN  IF num_names # num_args THEN {CountEntry(num_names, num_args)}
        ELSE IF inputs # {} THEN inputs
        ELSE InvalidMsgNoCount(h, cls, params)

\* invalid_msg, as the set of the sentences appended to it
InvalidMsg(h, cls, params) ==
    LET num_names == PyLen(TypeAttr(cls, "input_names"))
        num_args == Len(params)
    IN  (IF num_names # num_args THEN {CountEntry(num_names, num_args)} ELSE {})
        \cup {InputEntry(arg, name) : <<name, arg>> \in
                {pa \in InputProperties \X (InKeys \cup OutKeys) :
                    /\ pa[2] \in DOMAIN h[TypeAttr(cls, pa[1])]
                    /\ ~PyIn(pa[2], TypeAttr(cls, "input_names"))}}
        \cup {OutputEntry(arg, name) : <<name, arg>> \in
                {pa \in OutputProperties \X (InKeys \cup OutKeys) :
                    /\ pa[2] \in DOMAIN h[TypeAttr(cls, pa[1])]
                    /\ ~PyIn(pa[2], TypeAttr(cls, "output_names"))}}

\* the warning "No output_names have been specified ..." is logged
WarnsNoOutputs(cls) == PyLen(TypeAttr(cls, "output_names")) = 0

\* ValidationError(operation, message): the exception keeps both
ValidationError(operation, message) == [operation |-> operation, message |-> message]

\* raises ValidationError(cls, invalid_msg) iff invalid_msg is not empty
_validate(h, cls, params) ==
    [msg |-> InvalidMsg(h, cls, params),
     warned |-> WarnsNoOutputs(cls),
     raises |-> InvalidMsg(h, cls, params) # {},
     error |-> ValidationError(cls, InvalidMsg(h, cls, params))]

(***************************************************************************)
(* operation(): the factory                                                *)
(***************************************************************************)
ArgNames == {"filled_values", "fixable", "fixed", "input_names", "output_names",
             "limits", "opts", "output_shape", "units", "visible", "name",
             "input_descriptions", "output_descriptions", "categories"}

NoOverrides == [a \in ArgNames |-> PyNone]

\* The keys of `state` that hold a dict or a list, in the order they are evaluated,
\* each with the argument and the attribute of the callable it is merged from
\* ("" where there is none).
StateRefKeys ==
    << [key |-> "output_shape", arg |-> "output_shape", attr |-> "output_shape"],
       [key |-> "input_description", arg |-> "input_descriptions",
        attr |-> "input_descriptions"],
       [key |-> "output_descriptions", arg |-> "output_descriptions",
        attr |-> "output_descriptions"],
       [key |-> "categories", arg |-> "categories", attr |-> "categories"],
       [key |-> "filled_values", arg |-> "filled_values", attr |-> ""],
       [key |-> "limits", arg |-> "limits", attr |-> "limits"],
       [key |-> "units", arg |-> "units", attr |-> "units"],
       [key |-> "fixed", arg |-> "fixed", attr |-> "fixed"],
       [key |-> "fixable", arg |-> "fixable", attr |-> "fixable"],
       [key |-> "visible", arg |-> "visible", attr |-> "visible"],
       [key |-> "opts", arg |-> "opts", attr |-> "opts"],
       [key |-> "hints", arg |-> "", attr |-> "hints"] >>

\* The caller's dict or list `v` as an object of the heap (the option bags of an
\* opts dict are objects of their own).
RECURSIVE StoreBags(_, _, _, _)
StoreBags(h, d, keys, acc) ==
    IF keys = {} THEN [heap |-> Append(h, acc), ref |-> Len(h) + 1]
    ELSE LET k == CHOOSE x \in keys : TRUE
         IN  StoreBags(Append(h, d[k]), d, keys \ {k}, SetItem(acc, k, Len(h) + 1))

Store(h, key, v) ==
    IF v.t = "list" THEN [heap |-> Append(h, v.l), ref |-> Len(h) + 1]
    ELSE IF key = "opts" THEN StoreBags(h, v.d, DOMAIN v.d, EmptyDict)
    ELSE [heap |-> Append(h, v.d), ref |-> Len(h) + 1]

\* <argument> or getattr(func, <attr>, {}): the object the state key is bound to
MergeRef(h, fr, ov, k) ==
    IF k.arg # "" /\ Truthy(ov[k.arg]) THEN Store(h, k.key, ov[k.arg])
    ELSE IF k.attr # "" /\ HasRef(fr, k.attr) THEN [heap |-> h, ref |-> fr[k.attr]]
    ELSE [heap |-> Append(h, EmptyDict), ref |-> Len(h) + 1]

RECURSIVE MergeRefs(_, _, _, _, _)
MergeRefs(h, fr, ov, i, st) ==
    IF i > Len(StateRefKeys) THEN [heap |-> h, state |-> st]
    ELSE LET k == StateRefKeys[i]
             m == MergeRef(h, fr, ov, k)
         IN  MergeRefs(m.heap, fr, ov, i + 1, [st EXCEPT ![k.key] = m.ref])

\* "Allow passing a string"
AsTuple(names) == IF names.t = "str" THEN PyTuple(<<names.s>>) ELSE names

\* getattr(func, attr, default)
GetAttr(fv, attr_name, default) == IF fv[attr_name] # NoAttr THEN fv[attr_name] ELSE default

MergeName(f, fv, ov) ==
    Or(ov.name, GetAttr(fv, "name", IF f.intrinsic # NoAttr THEN f.intrinsic ELSE PyNone))

Reverse(q) == [i \in 1..Len(q) |-> q[Len(q) + 1 - i]]

\* the fallback taking the parameter names in the wrong order
MergeInputNamesReversed(f, fv, ov) ==
    Or(AsTuple(ov.input_names), GetAttr(fv, "input_names", PyTuple(Reverse(f.params))))

MergeInputNames(f, fv, ov) ==
    Or(AsTuple(ov.input_names), GetAttr(fv, "input_names", PyTuple(f.params)))

MergeOutputNames(f, fv, ov) ==
    Or(AsTuple(ov.output_names),
       GetAttr(fv, "output_names",
               IF f.intrinsic # NoAttr THEN f.intrinsic ELSE PyTuple(<<>>)))

\* the dict `state`, and the heap once its values exist
State(h, f, fv, fr, ov) ==
    LET st0 == [name |-> MergeName(f, fv, ov),
                input_names |-> MergeInputNames(f, fv, ov),
                output_names |-> MergeOutputNames(f, fv, ov),
                output_shape |-> 0, input_description |-> 0,
                output_descriptions |-> 0, categories |-> 0, filled_values |-> 0,
                limits |-> 0, units |-> 0, fixed |-> 0, fixable |-> 0,
                visible |-> 0, opts |-> 0, hints |-> 0]
    IN  MergeRefs(h, fr, ov, 1, st0)

NoClass == [a \in RefAttrs \cup ValAttrs \cup {"input_description"} |-> PyNone]

Call(ov, outcome, msg, warned, cls) ==
    [outcome |-> outcome, ov |-> ov, params |-> func.params,
     intrinsic |-> func.intrinsic, fmeta |-> FuncMeta(heap, fref, fval), msg |-> msg, warned |-> warned,
     cls |-> cls]

operation(ov) ==
    \E s \in {State(heap, func, fval, fref, ov)} :
    \E v \in {_validate(s.heap, s.state, func.params)} :
        /\ IF s.state.name = PyNone
           THEN /\ last' = Call(ov, "NameError", {}, FALSE, NoClass)
                /\ UNCHANGED <<heap, types>>
           ELSE IF v.raises
           THEN /\ last' = Call(ov, "ValidationError", v.error.message, v.warned,
                                ClassMeta(s.heap, v.error.operation))
                /\ UNCHANGED <<heap, types>>
           ELSE /\ last' = Call(ov, "returned", v.msg, v.warned,
                                ClassMeta(s.heap, s.state))
                /\ heap' = s.heap
                /\ types' = Append(types, s.state)
        /\ UNCHANGED <<func, fval, fref, insts, nannot, nedit, shown>>

\* The explicit arguments operation() is called with: none, or one of them given.
GivenDicts(keys) ==
    {PyDict(EmptyDict)} \cup {PyDict(SetItem(EmptyDict, k, "given")) : k \in keys}

ArgValues(a) ==
    CASE a = "name" -> {PyStr(""), PyStr("N")}
      [] a = "input_names" ->
            {PyTuple(<<>>), PyStr("a"), PyTuple(<<"a", "b">>), PyTuple(<<"y", "x">>)}
      [] a = "output_names" -> {PyTuple(<<>>), PyStr("o"), PyTuple(<<"o">>)}
      [] a = "categories" -> {PyList(<<>>), PyList(<< <<"C">> >>)}
      [] a = "opts" ->
            {PyDict(EmptyDict)}
            \cup {PyDict(SetItem(EmptyDict, k, [step |-> "9"])) : k \in InKeys}
      [] a \in {"output_shape", "output_descriptions"} -> GivenDicts(OutKeys)
      [] OTHER -> GivenDicts(InKeys)

Overrides ==
    {NoOverrides}
    \cup UNION {{[NoOverrides EXCEPT ![a] = v] : v \in ArgValues(a)} : a \in ArgNames}

(***************************************************************************)
(* OperationPlugin.__init__ and the edits clients make through an instance *)
(***************************************************************************)
\* The attributes __init__ rebinds to a copy, in its order.
CopiedAttrs == <<"filled_values", "fixable", "fixed", "limits", "opts",
                 "output_shape", "units", "hints">>

\* self.<attr> = self.<attr>.copy() for CopiedAttrs[i..]: each copy is a new object
\* with the same items (dict.copy and list.copy are shallow)
RECURSIVE CopyAttrs(_, _, _, _)
CopyAttrs(h, cls, i, own) ==
    IF i > Len(CopiedAttrs) THEN [heap |-> h, own |-> own]
    ELSE CopyAttrs(Append(h, h[TypeAttr(cls, CopiedAttrs[i])]), cls, i + 1,
                   [own EXCEPT ![CopiedAttrs[i]] = Len(h) + 1])

NoOwn == [filled_values |-> 0, fixable |-> 0, fixed |-> 0, limits |-> 0, opts |-> 0,
          output_shape |-> 0, units |-> 0, hints |-> 0]

\* an instance of the class types[c] is constructed
__init__(c) ==
    /\ Len(insts) < MaxInst
    /\ \E r \in {CopyAttrs(heap, types[c], 1, NoOwn)} :
          /\ heap' = r.heap
          /\ insts' = Append(insts, [cls |-> c, own |-> r.own])
    /\ UNCHANGED <<func, fval, fref, types, last, nannot, nedit, shown>>

\* self.<attr_name>: the instance's own attribute, else its class's (class 0 is
\* OperationPlugin itself)
InstAttr(inst, attr_name) ==
    IF attr_name \in DOMAIN inst.own THEN inst.own[attr_name]
    ELSE IF inst.cls = 0 THEN OperationPlugin[attr_name]
    ELSE TypeAttr(types[inst.cls], attr_name)

\* The attributes of an instance, by value.
InstMeta(h, inst) ==
    [a \in RefAttrs |-> Deref(h, a, InstAttr(inst, a))]

\* The frame of an edit made in place through an instance.
Edit(h) ==
    /\ nedit < MaxEdit
    /\ heap' = h
    /\ nedit' = nedit + 1
    /\ UNCHANGED <<func, fval, fref, types, insts, last, nannot, shown>>

\* instance.<attr_name>[key] = value
SetEntry(i, attr_name, key, value) ==
    Edit([heap EXCEPT ![InstAttr(insts[i], attr_name)] = SetItem(@, key, value)])

\* instance.opts[key][option] = value, where opts has an entry for key
SetOption(i, key, option, value) ==
    /\ key \in DOMAIN heap[InstAttr(insts[i], "opts")]
    /\ Edit([heap EXCEPT ![heap[InstAttr(insts[i], "opts")][key]] =
                SetItem(@, option, value)])

\* instance.hints.append(hint)
AddHint(i, hint) ==
    Edit([heap EXCEPT ![InstAttr(insts[i], "hints")] = Append(@, hint)])

\* The maps a client edits by key.
EditedMaps == DictAttrs \ {"opts"}

Edits ==
    \/ \E i \in 1..Len(insts), a \in EditedMaps : SetEntry(i, a, "x", "edited")
    \/ \E i \in 1..Len(insts) : SetOption(i, "x", "step", "edited")
    \/ \E i \in 1..Len(insts) : AddHint(i, "edited")

(***************************************************************************)
(* OperationPlugin.as_parameter and OperationPlugin.__reduce__              *)
(***************************************************************************)
\* The type names registered in pyqtgraph's PARAM_TYPES that the model uses.
PARAM_TYPES == {"int"}

\* self.<attr_name>.get(name, default)
Get(h, inst, attr_name, name, default) ==
    IF name \in DOMAIN h[InstAttr(inst, attr_name)]
    THEN h[InstAttr(inst, attr_name)][name]
    ELSE default

\* self.opts.get(name, {})
OptsGet(h, inst, name) ==
    IF name \in DOMAIN h[InstAttr(inst, "opts")]
    THEN h[h[InstAttr(inst, "opts")][name]]
    ELSE EmptyDict

\* parameter_dict['limits'] = self.limits[name], if name in self.limits
WithLimits(h, inst, name, d) ==
    IF name \in DOMAIN h[InstAttr(inst, "limits")]
    THEN SetItem(d, "limits", h[InstAttr(inst, "limits")][name])
    ELSE d

\* the four entries both branches set alike, and the closing update with the opts
WithFlags(h, inst, name, d) ==
    Updated(SetItem(SetItem(SetItem(SetItem(d,
                "units", Get(h, inst, "units", name, "None")),
                "fixed", Get(h, inst, "fixed", name, "None")),
                "fixable", Get(h, inst, "fixable", name, "None")),
                "visible", Get(h, inst, "visible", name, "True")),
            OptsGet(h, inst, name))

\* TypedDict showing the default whatever value is filled in
TypedDictOfDefault(h, inst, f, name) ==
    LET default == IF f.default[name] # "_empty" THEN f.default[name] ELSE "None"
        d == SetItem(SetItem(SetItem(SetItem(Updated(EmptyDict, OptsGet(h, inst, name)),
                "name", name),
                "default", default),
                "value", default),
                "type", f.annotation[name])
    IN  WithFlags(h, inst, name, WithLimits(h, inst, name, d))

\* the parameter_dict of a parameter whose annotation is in PARAM_TYPES
TypedDict(h, inst, f, name) ==
    LET default == IF f.default[name] # "_empty" THEN f.default[name] ELSE "None"
        d == SetItem(SetItem(SetItem(SetItem(Updated(EmptyDict, OptsGet(h, inst, name)),
                "name", name),
                "default", default),
                "value", Get(h, inst, "filled_values", name, default)),
                "type", f.annotation[name])
    IN  WithFlags(h, inst, name, WithLimits(h, inst, name, d))

\* the parameter_dict of a parameter annotated Enum; 'values' and 'type' are
\* one-element tuples (the trailing commas of lines 288 and 290)
EnumDict(h, inst, f, name) ==
    LET d == SetItem(SetItem(SetItem(SetItem(SetItem(EmptyDict,
                "name", name),
                "value", Get(h, inst, "filled_values", name, f.default[name])),
                "values", "(" \o Get(h, inst, "limits", name, "['---']") \o ",)"),
                "default", f.default[name]),
                "type", "('list',)")
    IN  WithFlags(h, inst, name, WithLimits(h, inst, name, d))

\* the list as_parameter builds from the parameters f.params[i..] of the signature
RECURSIVE parameter_dicts(_, _, _, _)
parameter_dicts(h, inst, f, i) ==
    IF i > Len(f.params) THEN <<>>
    ELSE LET name == f.params[i]
         IN  (IF f.annotation[name] \in PARAM_TYPES THEN <<TypedDict(h, inst, f, name)>>
              ELSE IF f.annotation[name] = "Enum" THEN <<EnumDict(h, inst, f, name)>>
              ELSE <<>>)
             \o parameter_dicts(h, inst, f, i + 1)

\* insts[i].as_parameter()
as_parameter(i) ==
    /\ shown' = [inst |-> i, parameter_dicts |-> parameter_dicts(heap, insts[i], func, 1)]
    /\ UNCHANGED <<func, fval, fref, heap, types, insts, last, nannot, nedit>>

\* the state __reduce__ returns next to (OperationPlugin, tuple()); _func is the
\* one callable of the model
__reduce__(h, inst) ==
    [filled_values |-> h[InstAttr(inst, "filled_values")],
     input_names |-> InstAttr(inst, "input_names"),
     output_names |-> InstAttr(inst, "output_names")]

\* pickle.loads(pickle.dumps(insts[i])): OperationPlugin() is constructed, which
\* copies the maps of OperationPlugin itself, and the reduced state becomes the new
\* instance's attributes
Reconstruct(i) ==
    /\ Len(insts) < MaxInst
    /\ \E st \in {__reduce__(heap, insts[i])} :
       \E r \in {CopyAttrs(heap, EmptyDict, 1, NoOwn)} :
          /\ heap' = Append(r.heap, st.filled_values)
          /\ insts' = Append(insts,
                [cls |-> 0,
                 own |-> [filled_values |-> Len(r.heap) + 1,
                          fixable |-> r.own.fixable, fixed |-> r.own.fixed,
                          limits |-> r.own.limits, opts |-> r.own.opts,
                          output_shape |-> r.own.output_shape, units |-> r.own.units,
                          hints |-> r.own.hints,
                          input_names |-> st.input_names,
                          output_names |-> st.output_names]])
    /\ UNCHANGED <<func, fval, fref, types, last, nannot, nedit, shown>>

Init ==
    /\ func \in [params : ParamLists, intrinsic : IntrinsicNames,
                  annotation : {Unannotated}, default : {NoDefaults}]
    /\ fval = [a \in ValAttrs |-> NoAttr]
    /\ fref = [a \in RefAttrs |-> 0]
    /\ heap = BaseHeap
    /\ types = <<>>
    /\ insts = <<>>
    /\ last = [outcome |-> "none"]
    /\ nannot = 0
    /\ nedit = 0
    /\ shown = [inst |-> 0, parameter_dicts |-> <<>>]

Annotators ==
    \/ \E k \in InKeys : units(k, "mm")
    \/ \E k \in InKeys : fixed(k, "True")
    \/ \E k \in InKeys : limits(k, "0..9")
    \/ \E k \in OutKeys : output_shape(k, "3x3")
    \/ \E k \in InKeys : visible(k, "False")
    \/ \E k \in InKeys, o \in OptionBags : opts(k, o)
    \/ \E k \in InKeys : describe_input(k, "text")
    \/ \E k \in OutKeys : describe_output(k, "text")
    \/ \E n \in DisplayNames : display_name(n)
    \/ \E n \in InputNameLists : input_names(n)
    \/ \E n \in OutputNameLists : output_names(n)
    \/ \E c \in CategoryLists : categories(c)
    \/ plot_hint("hint")

\* One call of the factory on a callable the annotators have been applied to.
Next ==
    \/ last.outcome = "none" /\ Annotators
    \/ \E ov \in Overrides : last.outcome = "none" /\ operation(ov)

Spec == Init /\ [][Next]_vars

(***************************************************************************)
(* The life of the classes: annotators and the factory in any order on one  *)
(* callable, instances of the classes returned, edits through instances.    *)
(***************************************************************************)
InitShared ==
    /\ Init
    /\ func = [params |-> <<"x">>, intrinsic |-> PyStr("add"),
               annotation |-> Unannotated, default |-> NoDefaults]

NextShared ==
    \/ Annotators
    \/ Len(types) < MaxBuild /\ operation(NoOverrides)
    \/ \E c \in 1..Len(types) : __init__(c)
    \/ Edits

SpecShared == InitShared /\ [][NextShared]_vars

(***************************************************************************)
(* The parameter list: a callable of two parameters with annotations and    *)
(* defaults, the annotators as_parameter reads, one call of the factory,    *)
(* instances, values filled in through them, pickling, as_parameter.        *)
(***************************************************************************)
Annotations == {"_empty", "int", "Enum", "Foo"}
Defaults == {"_empty", "0"}

\* The option bags: two that share an option, and one giving 'value'.
ShownOptionBags == {[step |-> "1"], [step |-> "2", readonly |-> "True"], [value |-> "9"]}

\* The factory's arguments: none, the inputs renamed, a value filled in.
ShownOverrides ==
    {NoOverrides,
     [NoOverrides EXCEPT !["input_names"] = PyTuple(<<"z", "y">>)],
     [NoOverrides EXCEPT !["filled_values"] = PyDict(SetItem(EmptyDict, "x", "given"))]}

InitShown ==
    /\ func \in [params : {<<"x", "y">>}, intrinsic : {PyStr("add")},
                  annotation : {a \in [ParamNames -> Annotations] : a["y"] = "int"},
                  default : {d \in [ParamNames -> Defaults] : d["y"] = "0"}]
    /\ fval = [a \in ValAttrs |-> NoAttr]
    /\ fref = [a \in RefAttrs |-> 0]
    /\ heap = BaseHeap
    /\ types = <<>>
    /\ insts = <<>>
    /\ last = [outcome |-> "none"]
    /\ nannot = 0
    /\ nedit = 0
    /\ shown = [inst |-> 0, parameter_dicts |-> <<>>]

ShownAnnotators ==
    \/ units("x", "mm")
    \/ fixed("x", "True")
    \/ \E k \in InKeys : limits(k, "0..9")
    \/ visible("x", "False")
    \/ \E k \in InKeys, o \in ShownOptionBags : opts(k, o)

\* One call of the factory; instances, a value filled in through the first of them,
\* pickling; and in the end one call of as_parameter.
NextShown ==
    \/ last.outcome = "none" /\ ShownAnnotators
    \/ \E ov \in ShownOverrides : last.outcome = "none" /\ operation(ov)
    \/ \E c \in 1..Len(types) : shown.inst = 0 /\ __init__(c)
    \/ /\ shown.inst = 0
       /\ insts # <<>>
       /\ Get(heap, insts[1], "filled_values", "x", "None") # "edited"
       /\ SetEntry(1, "filled_values", "x", "edited")
    \/ \E i \in 1..Len(insts) : shown.inst = 0 /\ Reconstruct(i)
    \/ \E i \in 1..Len(insts) : shown.inst = 0 /\ as_parameter(i)

SpecShown == InitShown /\ [][NextShown]_vars

(***************************************************************************)
(* Properties of one call of the factory.  `last` holds the call: its      *)
(* arguments (ov), the callable as it was (params, intrinsic, fmeta), the  *)
(* outcome, and the class by value (cls).                                  *)
(***************************************************************************)
Validated == last.outcome \in {"returned", "ValidationError"}
Returned == last.outcome = "returned"

\* k is one of the names of the sequence `names` (the items of a str are its
\* characters)
IsElement(k, names) ==
    CASE names.t = "tuple" -> \E i \in 1..Len(names.q) : names.q[i] = k
      [] names.t = "str" -> Len(k) = 1 /\ SubStr(k, names.s)

\* C1: for each of limits, units, fixed, fixable, visible, opts (against the input
\* names) and output_shape (against the output names) and each key k of it,
\* validation fails with a ValidationError naming k iff k is not one of the names.
C1_InvalidKeyIffRejected ==
    Validated =>
        /\ \A M \in InputProperties : \A k \in DOMAIN last.cls[M] :
              (last.outcome = "ValidationError" /\ InputEntry(k, M) \in last.msg)
                  <=> ~IsElement(k, last.cls.input_names)
        /\ \A M \in OutputProperties : \A k \in DOMAIN last.cls[M] :
              (last.outcome = "ValidationError" /\ OutputEntry(k, M) \in last.msg)
                  <=> ~IsElement(k, last.cls.output_names)

\* The value an explicit argument a = v stands for (a str given for the input or
\* output names is the one-name sequence).
Given(a, v) ==
    CASE v.t = "dict" -> v.d
      [] v.t = "list" -> v.l
      [] a = "name" -> v
      [] OTHER -> AsTuple(v)

\* C2: for every field, the built class holds the explicit argument whenever one is
\* given (stated here for arguments that are not empty), before anything the
\* annotators attached and before the introspected default.
C2_ExplicitOverrideWins ==
    Returned =>
        \A a \in ArgNames : Truthy(last.ov[a]) => last.cls[a] = Given(a, last.ov[a])

\* What an annotator attached to the callable.
Attached(a) == IF a \in ValAttrs THEN last.fmeta[a] ELSE last.fmeta[a].d

\* C3: with no explicit argument for a field, what the annotators attached to the
\* callable is the value of that field of the built class.
C3_AnnotatedMetadataSurvives ==
    Returned =>
        \A a \in RefAttrs \cup ValAttrs :
            /\ (a \in ArgNames => last.ov[a] = PyNone)
            /\ last.fmeta[a] # NoAttr
            => last.cls[a] = Attached(a)

PerInputMaps == {"filled_values", "limits", "units", "fixed", "fixable", "visible",
                 "opts", "input_descriptions"}
PerOutputMaps == {"output_shape", "output_descriptions"}

\* C4: in a class the factory returns, every key of every per-input map is one of
\* the input names and every key of every per-output map is one of the output names.
C4_KeysAreDeclaredNames ==
    Returned =>
        /\ \A M \in PerInputMaps : \A k \in DOMAIN last.cls[M] :
              IsElement(k, last.cls.input_names)
        /\ \A M \in PerOutputMaps : \A k \in DOMAIN last.cls[M] :
              IsElement(k, last.cls.output_names)

NoNames(v) == v \in {PyNone, NoAttr, PyTuple(<<>>)}

\* No output names are declared: neither the argument nor the annotator gives any.
ZeroDeclaredOutputs == NoNames(last.ov.output_names) /\ NoNames(last.fmeta.output_names)

\* C5: a class built from a callable with no declared outputs has empty
\* output_names, and the missing-outputs warning was logged.
C5_NoOutputsWarns ==
    Returned /\ ZeroDeclaredOutputs =>
        /\ PyLen(last.cls.output_names) = 0
        /\ last.warned

\* No source gives a name that is not empty.
NoNameResolvable ==
    /\ ~Truthy(last.ov.name)
    /\ ~Truthy(last.fmeta.name)
    /\ ~Truthy(last.intrinsic)

\* C6: the name of a returned class is a str that is not empty, and the factory
\* raises NameError when no source gives such a name.
C6_NameNotEmpty ==
    /\ Returned => last.cls.name.t = "str" /\ last.cls.name.s # ""
    /\ last.outcome # "none" /\ NoNameResolvable => last.outcome = "NameError"

\* The input names the caller supplied: the argument if given, else the annotator's.
SuppliedInputNames ==
    IF last.ov.input_names # PyNone THEN AsTuple(last.ov.input_names)
    ELSE last.fmeta.input_names

\* The same, an empty argument counting as not given.
InputNamesInEffect ==
    IF Truthy(last.ov.input_names) THEN AsTuple(last.ov.input_names)
    ELSE last.fmeta.input_names

CountDiffers(names) == names # NoAttr /\ PyLen(names) # Len(last.params)

\* Some source gives a name: an argument that is not empty, the display_name
\* annotator, or the callable's __name__.
NameResolves ==
    \/ Truthy(last.ov.name)
    \/ last.fmeta.name # NoAttr
    \/ last.intrinsic # NoAttr

\* C7 as stated: a returned class has as many input names as the callable has
\* parameters, and the factory raises ValidationError whenever the input names
\* supplied by the argument or the annotator have another count.
C7_AsStated ==
    /\ Returned => PyLen(last.cls.input_names) = Len(last.params)
    /\ last.outcome # "none" /\ CountDiffers(SuppliedInputNames)
          => last.outcome = "ValidationError"

\* C7, amended: a returned class has as many input names as the callable has
\* parameters; whenever the input names in effect (an argument that is not empty,
\* else the annotator's) have another count, no class is returned: the factory
\* raises NameError when no name resolves, and otherwise a ValidationError
\* reporting the two counts.
C7_CountEnforced ==
    /\ Returned => PyLen(last.cls.input_names) = Len(last.params)
    /\ last.outcome # "none" /\ CountDiffers(InputNamesInEffect) =>
          IF NameResolves
          THEN /\ last.outcome = "ValidationError"
               /\ CountEntry(PyLen(InputNamesInEffect), Len(last.params)) \in last.msg
          ELSE last.outcome = "NameError"

\* C7's case: the annotator's names have another count and the factory raised.
C7_Witness ==
    /\ last.outcome = "ValidationError"
    /\ last.ov.input_names = PyNone
    /\ last.fmeta.input_names = PyTuple(<<"a">>)
    /\ last.params = <<"x", "y">>

\* C8: a class built with no explicit input names (no argument, no annotator) has
\* the callable's parameter names, in the callable's order, as its input names.
C8_DefaultInputNames ==
    Returned /\ last.ov.input_names = PyNone /\ last.fmeta.input_names = NoAttr
        => last.cls.input_names = PyTuple(last.params)

\* C8's case: a two-parameter callable built without explicit input names.
C8_Witness ==
    /\ Returned
    /\ last.ov.input_names = PyNone
    /\ last.fmeta.input_names = NoAttr
    /\ last.params = <<"x", "y">>
    /\ last.cls.input_names = PyTuple(<<"x", "y">>)

\* The problems of the class the error refers to: another count of input names
\* than parameters, the keys of the input maps that are not input names, the keys
\* of the output maps the validator finds not to be in the output names.
ProblemsOfClass ==
    (IF PyLen(last.cls.input_names) # Len(last.params)
     THEN {CountEntry(PyLen(last.cls.input_names), Len(last.params))} ELSE {})
    \cup UNION {{InputEntry(k, M) : k \in {x \in DOMAIN last.cls[M] :
                    ~IsElement(x, last.cls.input_names)}} : M \in InputProperties}
    \cup UNION {{OutputEntry(k, M) : k \in {x \in DOMAIN last.cls[M] :
                    ~PyIn(x, last.cls.output_names)}} : M \in OutputProperties}

\* C11: validation raises a ValidationError exactly when it finds a problem, and
\* the one error raised carries an entry for every problem found, of every kind at
\* once, and the class they are problems of.
C11_AllProblemsReported ==
    Validated =>
        /\ last.outcome = "ValidationError" <=> ProblemsOfClass # {}
        /\ last.outcome = "ValidationError" => last.msg = ProblemsOfClass

\* C11's case: a count mismatch, an invalid input key and an invalid output key at
\* once, all three reported by the one error.
C11_Witness ==
    /\ last.outcome = "ValidationError"
    /\ \E e \in last.msg : e.kind = "count"
    /\ \E e \in last.msg : e.kind = "input"
    /\ \E e \in last.msg : e.kind = "output"

\* C12 as stated: an application of opts(k, ...) merges its options into the entry
\* for k: the options given overwrite the keys they share with the entry, and the
\* other keys of the entry are kept.
C12_AsStated ==
    [][\A k \in InKeys, o \in ShownOptionBags :
          opts(k, o) => OptsEntry(heap', fref', k) = Updated(OptsEntry(heap, fref, k), o)]_vars

\* C12, amended: an application of opts(k, ...) sets the entry for k to exactly the
\* options given, dropping what an earlier application stored for k, and leaves
\* the entries of the other inputs as they were.
C12_LastApplicationWins ==
    [][\A k \in InKeys, o \in ShownOptionBags :
          opts(k, o) => /\ OptsEntry(heap', fref', k) = o
                        /\ \A j \in InKeys \ {k} :
                              OptsEntry(heap', fref', j) = OptsEntry(heap, fref, j)]_vars

\* C12's case: opts("x", step=2, readonly=True) and then opts("x", step=1) were
\* applied (each call's dict is on the heap), and the entry is the second dict.
C12_Witness ==
    /\ nannot = 2
    /\ HasRef(fref, "opts")
    /\ DOMAIN heap[fref["opts"]] = {"x"}
    /\ Len(heap) = Len(BaseHeap) + 2
    /\ heap[Len(BaseHeap) + 1] = [step |-> "2", readonly |-> "True"]
    /\ heap[Len(BaseHeap) + 2] = [step |-> "1"]
    /\ OptsEntry(heap, fref, "x") = [step |-> "1"]

\* func.categories, [] when there is none
FuncCategories(h, fr) == IF HasRef(fr, "categories") THEN h[fr["categories"]] ELSE <<>>

\* C13: an application of categories(p1, ..., pk) appends the k paths, in order, as
\* k elements to the callable's categories, keeping the earlier elements.
C13_EachPathAppended ==
    [][\A c \in CategoryLists :
          categories(c) => FuncCategories(heap', fref') = FuncCategories(heap, fref) \o c]_vars

(***************************************************************************)
(* Properties of the classes and instances over time.                      *)
(***************************************************************************)
\* The step is an edit made through an instance.
EditStep == nedit' # nedit

\* The step applies an annotator or calls the factory.
DeclarationStep == nannot' # nannot \/ last' # last

\* The instances whose data the step changes.
ChangedInstances ==
    {i \in 1..Len(insts) : InstMeta(heap', insts[i]) # InstMeta(heap, insts[i])}

\* The classes whose data the step changes.
ChangedTypes ==
    {c \in 1..Len(types) : ClassMeta(heap', types[c]) # ClassMeta(heap, types[c])}

\* C9: an edit made through an instance to one of its metadata maps changes the
\* data of no class and of no other instance.
C9_InstanceEditsStayPrivate ==
    [][EditStep => ChangedTypes = {} /\ Cardinality(ChangedInstances) <= 1]_vars

\* The dicts and lists a class holds.
TypeRefs(cls) == {TypeAttr(cls, a) : a \in RefAttrs}

\* C10: the data of a class the factory has returned is changed by no later
\* annotator and no later call of the factory, and no two classes hold the same
\* dict or list.
C10_ReturnedTypeIsFrozen ==
    [][/\ DeclarationStep => ChangedTypes = {}
       /\ \A c, d \in 1..Len(types') :
             c # d => TypeRefs(types'[c]) \cap TypeRefs(types'[d]) = {}]_vars
(***************************************************************************)
(* Properties of the parameter list.                                       *)
(***************************************************************************)
\* C14: the instance reconstructed from the reduced state {callable, filled_values,
\* input_names, output_names} of an instance has the same parameter list as that
\* instance.
C14_ReduceKeepsProjection ==
    [][\A i \in 1..Len(insts) :
          Reconstruct(i) => parameter_dicts(heap', insts'[Len(insts')], func, 1)
                                = parameter_dicts(heap, insts[i], func, 1)]_vars
\* The type is one the editor can show: registered, or the enumeration type.
Recognized(annotation) == annotation \in PARAM_TYPES \cup {"Enum"}

\* The records of the list `dicts` that are named n.
RecordsNamed(dicts, n) == {r \in 1..Len(dicts) : dicts[r]["name"] = n}

\* v is the default of the signature (for a parameter without one: None, or the
\* signature's marker of no default).
IsDefault(v, default) == IF default = "_empty" THEN v \in {"None", "_empty"} ELSE v = default

\* C15 as stated: as_parameter() gives no record for an input whose declared type
\* is absent or not recognized, and for an input of a recognized type exactly one
\* record, whose value is the input's filled value when there is one and the
\* signature default otherwise.  The inputs are taken under the names of the
\* signature, which declares the types and the defaults.
C15_AsStated ==
    [][\A i \in 1..Len(insts) : as_parameter(i) =>
          \A j \in 1..Len(func.params) :
             LET p == func.params[j]
                 n == p
                 filled == heap[InstAttr(insts[i], "filled_values")]
                 recs == RecordsNamed(shown'.parameter_dicts, n)
             IN  IF ~Recognized(func.annotation[p]) THEN recs = {}
                 ELSE /\ Cardinality(recs) = 1
                      /\ \A r \in recs :
                            IF n \in DOMAIN filled
                            THEN shown'.parameter_dicts[r]["value"] = filled[n]
                            ELSE IsDefault(shown'.parameter_dicts[r]["value"],
                                           func.default[p])]_vars

\* C15, amended: as_parameter() gives no record for an input whose declared type
\* is absent or not recognized, and for an input of a recognized type exactly one
\* record, whose value is the 'value' option of the input's opts if there is one,
\* else the input's filled value if there is one, else the signature default.
C15_ValueShown ==
    [][\A i \in 1..Len(insts) : as_parameter(i) =>
          \A j \in 1..Len(func.params) :
             LET p == func.params[j]
                 filled == heap[InstAttr(insts[i], "filled_values")]
                 options == OptsGet(heap, insts[i], p)
                 recs == RecordsNamed(shown'.parameter_dicts, p)
             IN  IF ~Recognized(func.annotation[p]) THEN recs = {}
                 ELSE /\ Cardinality(recs) = 1
                      /\ \A r \in recs :
                            IF "value" \in DOMAIN options
                            THEN shown'.parameter_dicts[r]["value"] = options["value"]
                            ELSE IF p \in DOMAIN filled
                            THEN shown'.parameter_dicts[r]["value"] = filled[p]
                            ELSE IsDefault(shown'.parameter_dicts[r]["value"],
                                           func.default[p])]_vars

\* C15's case: the list shown for an instance of add(x: int, y: int) has a record
\* for each parameter; x has a filled value and y has none and shows its default.
C15_Witness ==
    /\ shown.inst # 0
    /\ func.annotation = [p \in ParamNames |-> "int"]
    /\ Len(shown.parameter_dicts) = 2
    /\ shown.parameter_dicts[1]["name"] = "x"
    /\ shown.parameter_dicts[1]["value"] = "given"
    /\ shown.parameter_dicts[2]["name"] = "y"
    /\ shown.parameter_dicts[2]["value"] = "0"

\* The positions of the name n in the sequence of names.
PositionsOf(n, names) == {j \in 1..Len(names) : names[j] = n}

\* The record d shows what the instance holds for the input named n: its limits
\* (none when it has none), units, fixed, fixable (None when absent), visible (True
\* when absent) and every option of its opts.
ShowsMetadataOf(h, inst, d, n) ==
    /\ IF n \in DOMAIN h[InstAttr(inst, "limits")]
       THEN "limits" \in DOMAIN d /\ d["limits"] = h[InstAttr(inst, "limits")][n]
       ELSE "limits" \notin DOMAIN d
    /\ d["units"] = Get(h, inst, "units", n, "None")
    /\ d["fixed"] = Get(h, inst, "fixed", n, "None")
    /\ d["fixable"] = Get(h, inst, "fixable", n, "None")
    /\ d["visible"] = Get(h, inst, "visible", n, "True")
    /\ \A o \in DOMAIN OptsGet(h, inst, n) :
          o \in DOMAIN d /\ d[o] = OptsGet(h, inst, n)[o]

\* C16: as_parameter() gives its records in the order of input_names, each under a
\* name of input_names, each showing the limits, units, fixed, fixable, visible
\* and opts the instance holds for that input name; also when input_names renames
\* the parameters.
C16_RecordsFollowInputNames ==
    [][\A i \in 1..Len(insts) : as_parameter(i) =>
          LET names == InstAttr(insts[i], "input_names").q
              dicts == shown'.parameter_dicts
          IN  /\ \A r \in 1..Len(dicts) :
                    /\ PositionsOf(dicts[r]["name"], names) # {}
                    /\ ShowsMetadataOf(heap, insts[i], dicts[r], dicts[r]["name"])
              /\ \A r1, r2 \in 1..Len(dicts) :
                    r1 < r2 => \E j1 \in PositionsOf(dicts[r1]["name"], names),
                                  j2 \in PositionsOf(dicts[r2]["name"], names) : j1 < j2]_vars
====
